---- MODULE Spec2Model ----
(***************************************************************************)
(* Terminal calendar with Google Calendar integration (calendar/main.go,   *)
(* gcal/cache.go, gcal/config.go, gcal/events.go).                         *)
(*                                                                         *)
(* The bubbletea model `m` and the files and remote service it talks to    *)
(* are the state. model.Update is translated as a function from the        *)
(* program's state and one message to the state after it; the actions      *)
(* feed it the messages the runtime can deliver.                           *)
(*                                                                         *)
(* Modelling assumptions: the config directory is readable and writable    *)
(* (os.OpenFile and os.Remove succeed on an existing path), local midnight *)
(* exists on every date (no DST gap at 00:00), and the remote calendars    *)
(* hold the same items for the whole run.                                  *)
(***************************************************************************)
EXTENDS Integers, Sequences, FiniteSets, TLC

VARIABLES
    m,          \* the bubbletea model (main.go: type model)
    cacheFile,  \* ~/.config/calendar/events_cache.json
    configFile, \* ~/.config/calendar/config.json
    inflight,   \* sync commands handed to the runtime and not yet delivered
    now,        \* the wall clock, in ticks of TickHours hours since start
    quit        \* tea.Quit was returned: the program has ended

vars == <<m, cacheFile, configFile, inflight, now, quit>>

----------------------------------------------------------------------------
(* Bounds of the exploration *)

YearsAhead == 1     \* the position stays in ThisYear..ThisYear + YearsAhead
YearsBack == 124    \* year steps go back to ThisYear - YearsBack (1900)
MaxMonth == 3       \* the position stays in January..MaxMonth
MaxBuffer == 1      \* characters typed into a picker buffer
MaxClock == 3       \* ticks the clock may advance
MaxAge == 3         \* oldest cache record (in ticks) left by an earlier run
MaxDigits == 4      \* characters typed into the year buffer

(* The environment of the run *)

ThisYear == 2024    \* time.Now().Year() when the program starts
FreshHours == 24    \* 24*time.Hour in LoadEventsCache
TickHours == FreshHours \div 2      \* hours per clock tick
FreshTicks == FreshHours \div TickHours
PageStep == 10               \* pgup, pgdown: m.picker.yearCursor -= 10

----------------------------------------------------------------------------
(* Date arithmetic: time.Date normalisation, AddDate, daysIn, clampDay *)

isLeap(year) == year % 4 = 0 /\ (year % 100 # 0 \/ year % 400 = 0)

\* length of a month of the civil calendar, month in 1..12
monthLength(year, month) ==
    IF month = 2 THEN (IF isLeap(year) THEN 29 ELSE 28)
    ELSE IF month \in {4, 6, 9, 11} THEN 30 ELSE 31

\* time.Date brings a month outside 1..12 into range by carrying into the year
normMonth(year, month) ==
    [year |-> year + ((month - 1) \div 12), month |-> ((month - 1) % 12) + 1]

RECURSIVE normDay(_, _, _)
\* time.Date brings a day outside the month into range by carrying into the
\* month (and the year); year and month are already normal
normDay(year, month, day) ==
    IF day < 1 THEN
        LET p == normMonth(year, month - 1)
        IN normDay(p.year, p.month, day + monthLength(p.year, p.month))
    ELSE IF day > monthLength(year, month) THEN
        LET n == normMonth(year, month + 1)
        IN normDay(n.year, n.month, day - monthLength(year, month))
    ELSE [year |-> year, month |-> month, day |-> day]

\* time.Date(year, month, day, 0, 0, 0, 0, time.Local): the normalised date
Date(year, month, day) ==
    LET ym == normMonth(year, month) IN normDay(ym.year, ym.month, day)

\* t.AddDate(years, months, days) on a normalised date t
AddDate(t, years, months, days) ==
    Date(t.year + years, t.month + months, t.day + days)

daysIn_Julian(year, month) ==
    IF month = 2 THEN (IF year % 4 = 0 THEN 29 ELSE 28)
    ELSE Date(year, month + 1, 0).day

daysIn(year, month) == Date(year, month + 1, 0).day

withDate(state, t) ==
    [state EXCEPT !.year = t.year, !.month = t.month, !.day = t.day]

adjustDay(state, delta) ==
    withDate(state, AddDate(Date(state.year, state.month, state.day), 0, 0, delta))

adjustMonth(state, delta) ==
    withDate(state, AddDate(Date(state.year, state.month, state.day), 0, delta, 0))

adjustYear(state, delta) ==
    withDate(state, AddDate(Date(state.year, state.month, state.day), delta, 0, 0))

clampDay_Skip(state) == state

clampDay(state) ==
    LET days == daysIn(state.year, state.month)
        s1 == IF state.day > days THEN [state EXCEPT !.day = days] ELSE state
    IN IF s1.day < 1 THEN [s1 EXCEPT !.day = 1] ELSE s1

----------------------------------------------------------------------------
(* The remote calendar service *)

\* CalendarList.List: the identifiers of the user's calendars, in listing order
Listing == <<"primary", "work">>

noStart == [set |-> FALSE, year |-> 0, month |-> 0, day |-> 0]
startOn(year, month, day) == [set |-> TRUE, year |-> year, month |-> month, day |-> day]

\* Events.List(calID) with TimeMin = Jan 1 and TimeMax = Dec 31 of the year:
\* the items that overlap the year's window, ordered by start time. One
\* meeting of January 31 is on both listed calendars, with the same Id;
\* "work" also holds a two-day event that begins on Dec 31 (so it is also in
\* the window of the next year) and an item that carries no start value.
\* "archive" is a calendar the account can read that holds no event.
RemoteItems(calID, year) ==
    IF calID = "primary" THEN
        << [Id |-> <<"meeting", year, 1>>, Start |-> startOn(year, 1, 31)] >>
    ELSE IF calID = "work" THEN
        << [Id |-> <<"work", year - 1, 2>>, Start |-> startOn(year - 1, 12, 31)],
           [Id |-> <<"meeting", year, 1>>, Start |-> startOn(year, 1, 31)],
           [Id |-> <<"work", year, 2>>, Start |-> startOn(year, 12, 31)],
           [Id |-> <<"work", year, 3>>, Start |-> noStart] >>
    ELSE << >>

RemoteHas(calID) ==
    \/ \E i \in 1..Len(Listing) : Listing[i] = calID
    \/ calID = "archive"

\* the outcomes of one fetch: the set of requested calendars whose
\* Events.List call fails; a calendar the service does not know always
\* fails, and each of the others can fail on its own
FetchOutcomes(calendarIDs) ==
    LET ids == {calendarIDs[i] : i \in 1..Len(calendarIDs)}
        unknown == {c \in ids : ~RemoteHas(c)}
    IN {unknown \cup F : F \in SUBSET ids}

----------------------------------------------------------------------------
(* gcal/events.go *)

emptyEvents == << >>          \* make(map[time.Month]map[int][]Event)
zeroTime == [year |-> 1, month |-> 1, day |-> 1]   \* var startTime time.Time

newEvent(item, calID) ==
    [ID |-> item.Id,
     CalendarID |-> calID,
     StartTime |-> IF item.Start.set
                   THEN [year |-> item.Start.year, month |-> item.Start.month,
                         day |-> item.Start.day]
                   ELSE zeroTime]

appendEvent_Dedup(allEvents, event) ==
    LET month == event.StartTime.month
        day == event.StartTime.day
        days == IF month \in DOMAIN allEvents THEN allEvents[month] ELSE << >>
        list == IF day \in DOMAIN days THEN days[day] ELSE << >>
        list2 == IF \E i \in 1..Len(list) : list[i].ID = event.ID
                 THEN list ELSE Append(list, event)
        days2 == [d \in (DOMAIN days) \cup {day} |->
                    IF d = day THEN list2 ELSE days[d]]
    IN [mo \in (DOMAIN allEvents) \cup {month} |->
            IF mo = month THEN days2 ELSE allEvents[mo]]

\* allEvents[month][day] = append(allEvents[month][day], event)
appendEvent(allEvents, event) ==
    LET month == event.StartTime.month
        day == event.StartTime.day
        days == IF month \in DOMAIN allEvents THEN allEvents[month] ELSE << >>
        list == IF day \in DOMAIN days THEN days[day] ELSE << >>
        days2 == [d \in (DOMAIN days) \cup {day} |->
                    IF d = day THEN Append(list, event) ELSE days[d]]
    IN [mo \in (DOMAIN allEvents) \cup {month} |->
            IF mo = month THEN days2 ELSE allEvents[mo]]

RECURSIVE appendItems(_, _, _, _)
appendItems(allEvents, items, calID, i) ==
    IF i > Len(items) THEN allEvents
    ELSE appendItems(appendEvent(allEvents, newEvent(items[i], calID)),
                     items, calID, i + 1)

RECURSIVE fetchCalendars(_, _, _, _, _)
\* the loop over calendarIDs: a failing calendar sets lastErr and is skipped
fetchCalendars(acc, calendarIDs, year, failing, i) ==
    IF i > Len(calendarIDs) THEN acc
    ELSE IF calendarIDs[i] \in failing
         THEN fetchCalendars([acc EXCEPT !.lastErr = "unreachable"],
                             calendarIDs, year, failing, i + 1)
         ELSE fetchCalendars(
                [acc EXCEPT !.events =
                    appendItems(acc.events, RemoteItems(calendarIDs[i], year),
                                calendarIDs[i], 1)],
                calendarIDs, year, failing, i + 1)

\* FetchAllMonthsEvents(srv, calendarIDs, year) when the calendars in
\* `failing` cannot be fetched; err = "" is Go's nil error
FetchAllMonthsEvents(srv, calendarIDs, year, failing) ==
    IF ~srv THEN [events |-> emptyEvents, err |-> "calendar service is nil"]
    ELSE IF Len(calendarIDs) = 0 THEN [events |-> emptyEvents, err |-> ""]
    ELSE LET r == fetchCalendars([events |-> emptyEvents, lastErr |-> ""],
                                 calendarIDs, year, failing, 1)
         IN IF r.events = emptyEvents /\ r.lastErr # ""
            THEN [events |-> r.events, err |-> r.lastErr]
            ELSE [events |-> r.events, err |-> ""]

\* every event of a store, as a set
eventsOf(events) ==
    UNION { UNION { {events[mo][d][i] : i \in 1..Len(events[mo][d])}
                    : d \in DOMAIN events[mo] }
            : mo \in DOMAIN events }

----------------------------------------------------------------------------
(* gcal/cache.go *)

noFile == [kind |-> "none"]           \* the file does not exist
garbage == [kind |-> "garbage"]       \* bytes that are not a JSON document

\* json.NewEncoder(f).Encode(cache): the EventCache as a JSON document
encodeCache(cache) ==
    [kind |-> "json", year |-> cache.Year, events |-> cache.Events,
     timestamp |-> cache.Timestamp]

\* os.Open + json.NewDecoder(f).Decode(&cache)
decodeCache(file) ==
    IF file.kind = "json"
    THEN [err |-> FALSE,
          cache |-> [Year |-> file.year, Events |-> file.events,
                     Timestamp |-> file.timestamp]]
    ELSE [err |-> TRUE,
          cache |-> [Year |-> 0, Events |-> emptyEvents, Timestamp |-> 0]]

\* the file SaveEventsCache(year, events) leaves at time `clock`
SaveEventsCache(year, events, clock) ==
    encodeCache([Year |-> year, Events |-> events, Timestamp |-> clock])

nilEvents == [events |-> emptyEvents, isNil |-> TRUE, isFresh |-> FALSE]

LoadEventsCache_NoYearCheck(file, year, clock) ==
    LET d == decodeCache(file)
    IN IF d.err THEN nilEvents
       ELSE IF clock - d.cache.Timestamp > FreshTicks
            THEN [events |-> d.cache.Events, isNil |-> FALSE, isFresh |-> FALSE]
            ELSE [events |-> d.cache.Events, isNil |-> FALSE, isFresh |-> TRUE]

LoadEventsCache_StrictAge(file, year, clock) ==
    LET d == decodeCache(file)
    IN IF d.err THEN nilEvents
       ELSE IF d.cache.Year # year THEN nilEvents
       ELSE IF clock - d.cache.Timestamp >= FreshTicks
            THEN [events |-> d.cache.Events, isNil |-> FALSE, isFresh |-> FALSE]
            ELSE [events |-> d.cache.Events, isNil |-> FALSE, isFresh |-> TRUE]

\* LoadEventsCache(year) at time `clock`: (events, isFresh), events nil when
\* the file is missing, undecodable or of another year
LoadEventsCache(file, year, clock) ==
    LET d == decodeCache(file)
    IN IF d.err THEN nilEvents
       ELSE IF d.cache.Year # year THEN nilEvents
       ELSE IF clock - d.cache.Timestamp > FreshTicks
            THEN [events |-> d.cache.Events, isNil |-> FALSE, isFresh |-> FALSE]
            ELSE [events |-> d.cache.Events, isNil |-> FALSE, isFresh |-> TRUE]

\* ClearEventsCache: os.Remove(cachePath)
ClearEventsCache_Keep(file) == file

ClearEventsCache(file) == noFile

----------------------------------------------------------------------------
(* gcal/config.go *)

defaultIDs == <<"primary">>

\* json.NewEncoder(f).Encode(config)
encodeConfig(config) == [kind |-> "json", calendar_ids |-> config.CalendarIDs]

\* LoadConfig: the default selection for a missing, undecodable or empty file
LoadConfig_KeepsEmpty(file) ==
    IF file.kind # "json" THEN [CalendarIDs |-> defaultIDs]
    ELSE [CalendarIDs |-> file.calendar_ids]

LoadConfig(file) ==
    IF file.kind # "json" THEN [CalendarIDs |-> defaultIDs]
    ELSE IF Len(file.calendar_ids) = 0 THEN [CalendarIDs |-> defaultIDs]
    ELSE [CalendarIDs |-> file.calendar_ids]

SaveConfig(config) == encodeConfig(config)

----------------------------------------------------------------------------
(* Keys: a tea.KeyMsg is modelled by msg.String(); the keys of type        *)
(* tea.KeyRunes are the printable characters                               *)

Digits == <<"0", "1", "2", "3", "4", "5", "6", "7", "8", "9">>
DigitKeys == {Digits[i] : i \in 1..10}
LetterKeys == {"q", "h", "l", "k", "j", "n", "p", "N", "P", "t", "T", "y", "Y",
               "m", "M", "s", "S", "c", "C", "e", "E", "a", "A", "x"}
RuneKeys == DigitKeys \cup LetterKeys \cup {"-"}
NamedKeys == {"ctrl+c", "esc", "left", "right", "up", "down", " ", "enter",
              "backspace", "ctrl+h", "pgup", "pgdown", "tab"}
AllKeys == RuneKeys \cup NamedKeys

isRunes(key) == key \in RuneKeys          \* msg.Type == tea.KeyRunes
isDigit(r) == r \in DigitKeys             \* unicode.IsDigit, on the keys modelled
digitValue(r) == (CHOOSE i \in 1..10 : Digits[i] = r) - 1

RECURSIVE digitsValue(_, _, _)
digitsValue(buf, i, acc) ==
    IF i > Len(buf) THEN acc
    ELSE digitsValue(buf, i + 1, acc * 10 + digitValue(buf[i]))

\* strconv.Atoi on a buffer of characters: an optional sign and at least one
\* digit (the buffers modelled are too short to overflow int)
Atoi(buf) ==
    LET signed == Len(buf) > 0 /\ buf[1] \in {"-", "+"}
        body == IF signed THEN SubSeq(buf, 2, Len(buf)) ELSE buf
        ok == Len(body) > 0 /\ \A i \in 1..Len(body) : isDigit(body[i])
    IN IF ~ok THEN [err |-> TRUE, val |-> 0]
       ELSE [err |-> FALSE,
             val |-> IF signed /\ buf[1] = "-" THEN 0 - digitsValue(body, 1, 0)
                     ELSE digitsValue(body, 1, 0)]

trimLastRune(s) == IF s = << >> THEN s ELSE SubSeq(s, 1, Len(s) - 1)

----------------------------------------------------------------------------
(* main.go: pickerState *)

pickerNone == 0
pickerYear == 1
pickerMonth == 2

openYear(p, year) ==
    [p EXCEPT !.active = pickerYear, !.yearCursor = year,
              !.yearBuffer = << >>, !.monthBuffer = << >>]

openMonth(p, month) ==
    [p EXCEPT !.active = pickerMonth, !.monthCursor = month - 1,
              !.monthBuffer = << >>, !.yearBuffer = << >>]

close(p) ==
    [p EXCEPT !.active = pickerNone, !.yearBuffer = << >>, !.monthBuffer = << >>]

RECURSIVE yearBufferAfter(_, _, _)
yearBufferAfter(buf, runes, i) ==
    IF i > Len(runes) THEN buf
    ELSE IF isDigit(runes[i]) \/ (runes[i] = "-" /\ Len(buf) = 0)
         THEN yearBufferAfter(Append(buf, runes[i]), runes, i + 1)
         ELSE yearBufferAfter(buf, runes, i + 1)

handleYearRunes_ZeroOnError(p, runes) ==
    LET buf == yearBufferAfter(p.yearBuffer, runes, 1)
        p1 == [p EXCEPT !.yearBuffer = buf]
        parsed == Atoi(buf)
    IN IF buf = << >> THEN p1
       ELSE [p1 EXCEPT !.yearCursor = parsed.val]

handleYearRunes(p, runes) ==
    LET buf == yearBufferAfter(p.yearBuffer, runes, 1)
        p1 == [p EXCEPT !.yearBuffer = buf]
        parsed == Atoi(buf)
    IN IF buf = << >> THEN p1
       ELSE IF ~parsed.err THEN [p1 EXCEPT !.yearCursor = parsed.val]
       ELSE p1

RECURSIVE monthBufferAfter(_, _, _)
monthBufferAfter(buf, runes, i) ==
    IF i > Len(runes) THEN buf
    ELSE IF ~isDigit(runes[i]) THEN monthBufferAfter(buf, runes, i + 1)
    ELSE LET b == Append(buf, runes[i])
         IN monthBufferAfter(IF Len(b) > 2 THEN SubSeq(b, Len(b) - 1, Len(b)) ELSE b,
                             runes, i + 1)

handleMonthRunes_TwoDigits(p, runes) ==
    LET buf == monthBufferAfter(p.monthBuffer, runes, 1)
        p1 == [p EXCEPT !.monthBuffer = buf]
        parsed == Atoi(buf)
    IN IF buf = << >> THEN p1
       ELSE IF ~parsed.err /\ parsed.val >= 1 /\ parsed.val <= 12 /\ Len(buf) = 2
            THEN [p1 EXCEPT !.monthCursor = parsed.val - 1]
       ELSE p1

handleMonthRunes_NoRange(p, runes) ==
    LET buf == monthBufferAfter(p.monthBuffer, runes, 1)
        p1 == [p EXCEPT !.monthBuffer = buf]
        parsed == Atoi(buf)
    IN IF buf = << >> THEN p1
       ELSE IF ~parsed.err THEN [p1 EXCEPT !.monthCursor = parsed.val - 1]
       ELSE p1

handleMonthRunes(p, runes) ==
    LET buf == monthBufferAfter(p.monthBuffer, runes, 1)
        p1 == [p EXCEPT !.monthBuffer = buf]
        parsed == Atoi(buf)
    IN IF buf = << >> THEN p1
       ELSE IF ~parsed.err /\ parsed.val >= 1 /\ parsed.val <= 12
            THEN [p1 EXCEPT !.monthCursor = parsed.val - 1]
       ELSE p1

pickerBackspace_ZeroWhenEmpty(p) ==
    IF p.active = pickerYear THEN
        IF p.yearBuffer # << >> THEN
            LET buf == trimLastRune(p.yearBuffer)
            IN [p EXCEPT !.yearBuffer = buf, !.yearCursor = Atoi(buf).val]
        ELSE p
    ELSE IF p.active = pickerMonth THEN
        IF p.monthBuffer # << >> THEN
            LET buf == trimLastRune(p.monthBuffer)
                parsed == Atoi(buf)
            IN [p EXCEPT !.monthBuffer = buf,
                         !.monthCursor =
                            IF parsed.val >= 1 /\ parsed.val <= 12
                            THEN parsed.val - 1 ELSE 0]
        ELSE p
    ELSE p

pickerBackspace(p) ==
    IF p.active = pickerYear THEN
        IF p.yearBuffer # << >> THEN
            LET buf == trimLastRune(p.yearBuffer)
                parsed == Atoi(buf)
            IN [p EXCEPT !.yearBuffer = buf,
                         !.yearCursor = IF ~parsed.err THEN parsed.val ELSE @]
        ELSE p
    ELSE IF p.active = pickerMonth THEN
        IF p.monthBuffer # << >> THEN
            LET buf == trimLastRune(p.monthBuffer)
                parsed == Atoi(buf)
            IN [p EXCEPT !.monthBuffer = buf,
                         !.monthCursor =
                            IF ~parsed.err /\ parsed.val >= 1 /\ parsed.val <= 12
                            THEN parsed.val - 1 ELSE @]
        ELSE p
    ELSE p

pickerEnter_CommitsBoth(mm) ==
    [mm EXCEPT !.state.year = mm.picker.yearCursor,
               !.state.month = mm.picker.monthCursor + 1,
               !.picker = close(mm.picker)]

\* case "enter" of handlePickerInput: commit the cursor, close the picker
pickerEnter(mm) ==
    LET st == IF mm.picker.active = pickerYear
              THEN [mm.state EXCEPT !.year = mm.picker.yearCursor]
              ELSE IF mm.picker.active = pickerMonth
              THEN [mm.state EXCEPT !.month = mm.picker.monthCursor + 1]
              ELSE mm.state
    IN [mm EXCEPT !.state = st, !.picker = close(mm.picker)]

pickerUp_KeepsBuffer(p) ==
    IF p.active = pickerYear
    THEN [p EXCEPT !.yearCursor = @ - 1]
    ELSE IF p.active = pickerMonth
    THEN [p EXCEPT !.monthCursor = (@ + 11) % 12]
    ELSE p

pickerUp(p) ==
    IF p.active = pickerYear
    THEN [p EXCEPT !.yearCursor = @ - 1, !.yearBuffer = << >>]
    ELSE IF p.active = pickerMonth
    THEN [p EXCEPT !.monthCursor = (@ + 11) % 12, !.monthBuffer = << >>]
    ELSE p

pickerDown(p) ==
    IF p.active = pickerYear
    THEN [p EXCEPT !.yearCursor = @ + 1, !.yearBuffer = << >>]
    ELSE IF p.active = pickerMonth
    THEN [p EXCEPT !.monthCursor = (@ + 1) % 12, !.monthBuffer = << >>]
    ELSE p

\* handlePickerInput(&m, msg): the model after it and its return value
handlePickerInput(mm, key) ==
    IF mm.picker.active = pickerNone THEN [m |-> mm, handled |-> FALSE]
    ELSE IF isRunes(key) THEN
        [m |-> [mm EXCEPT !.picker =
                    IF mm.picker.active = pickerYear
                    THEN handleYearRunes(mm.picker, <<key>>)
                    ELSE handleMonthRunes(mm.picker, <<key>>)],
         handled |-> TRUE]
    ELSE IF key \in {"backspace", "ctrl+h"} THEN
        [m |-> [mm EXCEPT !.picker = pickerBackspace(mm.picker)], handled |-> TRUE]
    ELSE IF key = "esc" THEN
        [m |-> [mm EXCEPT !.picker = close(mm.picker)], handled |-> TRUE]
    ELSE IF key = "enter" THEN
        [m |-> pickerEnter(mm), handled |-> TRUE]
    ELSE IF key \in {"up", "k"} THEN
        [m |-> [mm EXCEPT !.picker = pickerUp(mm.picker)], handled |-> TRUE]
    ELSE IF key \in {"down", "j"} THEN
        [m |-> [mm EXCEPT !.picker = pickerDown(mm.picker)], handled |-> TRUE]
    ELSE IF key = "pgup" /\ mm.picker.active = pickerYear THEN
        [m |-> [mm EXCEPT !.picker.yearCursor = @ - PageStep, !.picker.yearBuffer = << >>],
         handled |-> TRUE]
    ELSE IF key = "pgdown" /\ mm.picker.active = pickerYear THEN
        [m |-> [mm EXCEPT !.picker.yearCursor = @ + PageStep, !.picker.yearBuffer = << >>],
         handled |-> TRUE]
    ELSE IF key \in {"q", "ctrl+c"} THEN
        [m |-> [mm EXCEPT !.picker = close(mm.picker)], handled |-> FALSE]
    ELSE [m |-> mm, handled |-> TRUE]

----------------------------------------------------------------------------
(* main.go: the calendar-selection view *)

\* the identifiers checked in the view
checked(selected) == {id \in DOMAIN selected : selected[id]}

\* the orders in which `for id, selected := range m.calendarView.selected`
\* can yield the checked identifiers (Go leaves map iteration order open)
Orderings(S) ==
    {o \in [1..Cardinality(S) -> S] : \A i, j \in 1..Cardinality(S) : o[i] = o[j] => i = j}

toggle(selected, calID) ==
    [id \in (DOMAIN selected) \cup {calID} |->
        IF id = calID THEN ~(calID \in DOMAIN selected /\ selected[calID])
        ELSE selected[id]]

calendarViewApply_NoFallback(mm, cacheF, configF, iter) ==
    LET m1 == [mm EXCEPT !.config = [CalendarIDs |-> iter]]
        m2 == [m1 EXCEPT !.calendarView.active = FALSE]
    IN [m |-> IF m2.calendarSrv /\ ~m2.syncing THEN [m2 EXCEPT !.syncing = TRUE] ELSE m2,
        handled |-> TRUE,
        configFile |-> SaveConfig(m1.config),
        cacheFile |-> ClearEventsCache(cacheF)]

\* case "a", "A" of handleCalendarViewInput; `iter` is the order in which the
\* map iteration yielded the checked identifiers
calendarViewApply(mm, cacheF, configF, iter) ==
    LET newIDs == IF Len(iter) = 0 THEN <<"primary">> ELSE iter
        m1 == [mm EXCEPT !.config = [CalendarIDs |-> newIDs]]
        m2 == [m1 EXCEPT !.calendarView.active = FALSE]
    IN [m |-> IF m2.calendarSrv /\ ~m2.syncing THEN [m2 EXCEPT !.syncing = TRUE] ELSE m2,
        handled |-> TRUE,
        configFile |-> SaveConfig(m1.config),
        cacheFile |-> ClearEventsCache(cacheF)]

handleCalendarViewInput_Wraps(mm, key, cacheF, configF, iter) ==
    LET same(m1) == [m |-> m1, handled |-> TRUE,
                     configFile |-> configF, cacheFile |-> cacheF]
        cv == mm.calendarView
        n == IF Len(cv.calendars) = 0 THEN 1 ELSE Len(cv.calendars)
    IN IF key \in {"esc", "q", "c", "C"} THEN
           same([mm EXCEPT !.calendarView.active = FALSE])
       ELSE IF key \in {"up", "k"} THEN
           same([mm EXCEPT !.calendarView.cursor = (@ + n - 1) % n])
       ELSE IF key \in {"down", "j"} THEN
           same([mm EXCEPT !.calendarView.cursor = (@ + 1) % n])
       ELSE IF key \in {" ", "enter"} THEN
           same(IF cv.cursor < Len(cv.calendars)
                THEN [mm EXCEPT !.calendarView.selected =
                                    toggle(@, cv.calendars[cv.cursor + 1])]
                ELSE mm)
       ELSE IF key \in {"a", "A"} THEN
           calendarViewApply(mm, cacheF, configF, iter)
       ELSE [m |-> mm, handled |-> FALSE,
             configFile |-> configF, cacheFile |-> cacheF]

\* handleCalendarViewInput(&m, msg): the model and the files after it, and
\* its return value
handleCalendarViewInput(mm, key, cacheF, configF, iter) ==
    LET same(m1) == [m |-> m1, handled |-> TRUE,
                     configFile |-> configF, cacheFile |-> cacheF]
        cv == mm.calendarView
    IN IF key \in {"esc", "q", "c", "C"} THEN
           same([mm EXCEPT !.calendarView.active = FALSE])
       ELSE IF key \in {"up", "k"} THEN
           same(IF cv.cursor > 0 THEN [mm EXCEPT !.calendarView.cursor = @ - 1] ELSE mm)
       ELSE IF key \in {"down", "j"} THEN
           same(IF cv.cursor < Len(cv.calendars) - 1
                THEN [mm EXCEPT !.calendarView.cursor = @ + 1] ELSE mm)
       ELSE IF key \in {" ", "enter"} THEN
           same(IF cv.cursor < Len(cv.calendars)
                THEN [mm EXCEPT !.calendarView.selected =
                                    toggle(@, cv.calendars[cv.cursor + 1])]
                ELSE mm)
       ELSE IF key \in {"a", "A"} THEN
           calendarViewApply(mm, cacheF, configF, iter)
       ELSE [m |-> mm, handled |-> FALSE,
             configFile |-> configF, cacheFile |-> cacheF]

----------------------------------------------------------------------------
(* main.go: the sync command and the cases of model.Update *)

noCmd == [kind |-> "none", calendarIDs |-> << >>, year |-> 0]
quitCmd == [kind |-> "quit", calendarIDs |-> << >>, year |-> 0]    \* tea.Quit
\* syncEvents(srv, calendarIDs, year): the arguments the closure captures
syncCmd(calendarIDs, year) == [kind |-> "sync", calendarIDs |-> calendarIDs, year |-> year]

\* the message the closure of syncEvents returns when it runs
syncEvents(srv, calendarIDs, year, failing) ==
    IF ~srv THEN
        [events |-> emptyEvents, eventsNil |-> TRUE, err |-> "calendar service not initialized"]
    ELSE IF Len(calendarIDs) = 0 THEN
        [events |-> emptyEvents, eventsNil |-> FALSE, err |-> ""]
    ELSE LET r == FetchAllMonthsEvents(srv, calendarIDs, year, failing)
         IN IF r.err # ""
            THEN [events |-> emptyEvents, eventsNil |-> FALSE, err |-> r.err]
            ELSE [events |-> r.events, eventsNil |-> FALSE, err |-> ""]

StartDate == [year |-> ThisYear, month |-> 1, day |-> 31]
\* time.Now() as a date, at clock tick `clock`
Today(clock) == AddDate(StartDate, 0, 0, (clock * TickHours) \div 24)

\* a return of Update: the model, the command, and the files as left
ret(mm, cmd, cacheF, configF) ==
    [m |-> mm, cmd |-> cmd, cacheFile |-> cacheF, configFile |-> configF]

\* leaving the switch: clampDay(&m.state); return m, nil
clamped(mm) == [mm EXCEPT !.state = clampDay(mm.state)]

\* case tea.KeyMsg while m.eventView.active
eventViewKey(mm, key) ==
    IF key \in {"esc", "e", "q"} THEN [mm EXCEPT !.eventView.active = FALSE] ELSE mm

\* cases "left", "h", "right", "l", "up", "k", "down", "j"
keyDay(mm, delta) == [mm EXCEPT !.state = adjustDay(mm.state, delta)]

\* cases "n", "p"
keyMonth(mm, delta) == [mm EXCEPT !.state = adjustMonth(mm.state, delta)]

\* cases "N" (delta = 1) and "P" (delta = -1): the model and the command;
\* early = TRUE is the return inside the case, before clampDay
keyYear(mm, delta, cacheF, clock) ==
    LET m1 == [mm EXCEPT !.state = adjustYear(mm.state, delta)]
    IN IF m1.state.year # Today(clock).year THEN
           LET cached == LoadEventsCache(cacheF, m1.state.year, clock)
           IN IF ~cached.isNil THEN
                  [m |-> [m1 EXCEPT !.state.events = cached.events],
                   cmd |-> noCmd, early |-> FALSE]
              ELSE LET m2 == [m1 EXCEPT !.state.events = emptyEvents]
                   IN IF m2.calendarSrv /\ ~m2.syncing
                      THEN [m |-> [m2 EXCEPT !.syncing = TRUE],
                            cmd |-> syncCmd(m2.config.CalendarIDs, m2.state.year),
                            early |-> TRUE]
                      ELSE [m |-> m2, cmd |-> noCmd, early |-> FALSE]
       ELSE [m |-> m1, cmd |-> noCmd, early |-> FALSE]

\* case "t", "T"
keyToday(mm, clock) ==
    LET t == Today(clock)
    IN [mm EXCEPT !.state.year = t.year, !.state.month = t.month, !.state.day = t.day]

\* case "y", "Y"
keyPickYear(mm) ==
    IF mm.picker.active = pickerYear
    THEN [mm EXCEPT !.picker = close(mm.picker)]
    ELSE [mm EXCEPT !.picker = openYear(mm.picker, mm.state.year)]

\* case "m", "M"
keyPickMonth(mm) ==
    IF mm.picker.active = pickerMonth
    THEN [mm EXCEPT !.picker = close(mm.picker)]
    ELSE [mm EXCEPT !.picker = openMonth(mm.picker, mm.state.month)]

keySync_NoGuard(mm) ==
    IF mm.calendarSrv
    THEN [m |-> [mm EXCEPT !.syncing = TRUE],
          cmd |-> syncCmd(mm.config.CalendarIDs, mm.state.year), early |-> TRUE]
    ELSE [m |-> mm, cmd |-> noCmd, early |-> FALSE]

\* case "s", "S"
keySync(mm) ==
    IF mm.calendarSrv /\ ~mm.syncing
    THEN [m |-> [mm EXCEPT !.syncing = TRUE],
          cmd |-> syncCmd(mm.config.CalendarIDs, mm.state.year), early |-> TRUE]
    ELSE [m |-> mm, cmd |-> noCmd, early |-> FALSE]

keyCalendars_KeepSelected(mm, listErr) ==
    IF mm.calendarSrv /\ ~mm.calendarView.active /\ ~listErr
    THEN [mm EXCEPT !.calendarView =
            [active |-> TRUE,
             calendars |-> Listing,
             selected |-> IF DOMAIN mm.calendarView.selected # {}
                          THEN mm.calendarView.selected
                          ELSE [id \in {mm.config.CalendarIDs[i] :
                                    i \in 1..Len(mm.config.CalendarIDs)} |-> TRUE],
             cursor |-> 0]]
    ELSE mm

\* case "c", "C"; listErr: gcal.ListCalendars returned an error
keyCalendars(mm, listErr) ==
    IF mm.calendarSrv /\ ~mm.calendarView.active /\ ~listErr
    THEN [mm EXCEPT !.calendarView =
            [active |-> TRUE,
             calendars |-> Listing,
             selected |-> [id \in {mm.config.CalendarIDs[i] :
                                    i \in 1..Len(mm.config.CalendarIDs)} |-> TRUE],
             cursor |-> 0]]
    ELSE mm

keyEvents_Always(mm) ==
    LET events == IF mm.state.month \in DOMAIN mm.state.events
                  THEN mm.state.events[mm.state.month] ELSE << >>
    IN [mm EXCEPT !.eventView =
            [active |-> TRUE,
             events |-> IF mm.state.day \in DOMAIN events
                        THEN events[mm.state.day] ELSE << >>]]

\* case "e", "E"
keyEvents(mm) ==
    IF mm.state.month \in DOMAIN mm.state.events
    THEN LET events == mm.state.events[mm.state.month]
         IN IF mm.state.day \in DOMAIN events /\ Len(events[mm.state.day]) > 0
            THEN [mm EXCEPT !.eventView = [active |-> TRUE, events |-> events[mm.state.day]]]
            ELSE mm
    ELSE mm

\* the switch msg.String() of Update, reached when no view or picker took the key
mainKey(mm, key, cacheF, configF, clock, listErr) ==
    LET go(m1) == ret(clamped(m1), noCmd, cacheF, configF)
        maybe(r) == ret(IF r.early THEN r.m ELSE clamped(r.m), r.cmd, cacheF, configF)
    IN IF key \in {"ctrl+c", "q", "esc"} THEN ret(mm, quitCmd, cacheF, configF)
       ELSE IF key \in {"left", "h"} THEN go(keyDay(mm, -1))
       ELSE IF key \in {"right", "l"} THEN go(keyDay(mm, 1))
       ELSE IF key \in {"up", "k"} THEN go(keyDay(mm, -7))
       ELSE IF key \in {"down", "j"} THEN go(keyDay(mm, 7))
       ELSE IF key = "n" THEN go(keyMonth(mm, 1))
       ELSE IF key = "p" THEN go(keyMonth(mm, -1))
       ELSE IF key = "N" THEN maybe(keyYear(mm, 1, cacheF, clock))
       ELSE IF key = "P" THEN maybe(keyYear(mm, -1, cacheF, clock))
       ELSE IF key \in {"t", "T"} THEN go(keyToday(mm, clock))
       ELSE IF key \in {"y", "Y"} THEN go(keyPickYear(mm))
       ELSE IF key \in {"m", "M"} THEN go(keyPickMonth(mm))
       ELSE IF key \in {"s", "S"} THEN maybe(keySync(mm))
       ELSE IF key \in {"c", "C"} THEN go(keyCalendars(mm, listErr))
       ELSE IF key \in {"e", "E"} THEN go(keyEvents(mm))
       ELSE go(mm)

\* case tea.KeyMsg of Update
updateKey(mm, key, cacheF, configF, clock, listErr, iter) ==
    IF mm.eventView.active THEN
        ret(eventViewKey(mm, key), noCmd, cacheF, configF)
    ELSE
        LET cv == IF mm.calendarView.active
                  THEN handleCalendarViewInput(mm, key, cacheF, configF, iter)
                  ELSE [m |-> mm, handled |-> FALSE,
                        configFile |-> configF, cacheFile |-> cacheF]
        IN IF cv.handled THEN ret(cv.m, noCmd, cv.cacheFile, cv.configFile)
           ELSE LET pk == handlePickerInput(cv.m, key)
                IN IF pk.handled
                   THEN ret(clamped(pk.m), noCmd, cv.cacheFile, cv.configFile)
                   ELSE mainKey(pk.m, key, cv.cacheFile, cv.configFile, clock, listErr)

\* case tea.WindowSizeMsg of Update
updateWindowSize(mm, width, cacheF, configF) ==
    ret(clamped([mm EXCEPT !.width = width]), noCmd, cacheF, configF)

syncFailedText(err) == <<"Sync failed: ", err>>    \* fmt.Sprintf("Sync failed: %v", msg.err)

updateSyncEvents_NoSave(mm, msg, cacheF, configF, clock) ==
    LET m1 == [mm EXCEPT !.syncing = FALSE]
    IN IF msg.err # "" THEN
           ret([m1 EXCEPT !.syncError = syncFailedText(msg.err)], noCmd, cacheF, configF)
       ELSE ret([m1 EXCEPT !.state.events = IF msg.eventsNil THEN @ ELSE msg.events,
                           !.syncError = << >>],
                noCmd, cacheF, configF)

updateSyncEvents_DropOnError(mm, msg, cacheF, configF, clock) ==
    LET m1 == [mm EXCEPT !.syncing = FALSE]
    IN IF msg.err # "" THEN
           ret([m1 EXCEPT !.syncError = syncFailedText(msg.err),
                          !.state.events = msg.events],
               noCmd, cacheF, configF)
       ELSE IF ~msg.eventsNil THEN
           ret([m1 EXCEPT !.state.events = msg.events, !.syncError = << >>],
               noCmd, SaveEventsCache(m1.state.year, msg.events, clock), configF)
       ELSE ret([m1 EXCEPT !.syncError = << >>], noCmd, cacheF, configF)

\* case syncEventsMsg of Update
updateSyncEvents(mm, msg, cacheF, configF, clock) ==
    LET m1 == [mm EXCEPT !.syncing = FALSE]
    IN IF msg.err # "" THEN
           ret([m1 EXCEPT !.syncError = syncFailedText(msg.err)], noCmd, cacheF, configF)
       ELSE IF ~msg.eventsNil THEN
           ret([m1 EXCEPT !.state.events = msg.events, !.syncError = << >>],
               noCmd, SaveEventsCache(m1.state.year, msg.events, clock), configF)
       ELSE ret([m1 EXCEPT !.syncError = << >>], noCmd, cacheF, configF)

----------------------------------------------------------------------------
(* main.go: initialModel and model.Init *)

initialModel_SyncOnlyIfAbsent(configF, cacheF, clock, srvOK) ==
    LET t == Today(clock)
        config == LoadConfig(configF)
        cached == LoadEventsCache(cacheF, t.year, clock)
        cachedEvents == IF cached.isNil THEN emptyEvents ELSE cached.events
        syncErr == IF srvOK THEN << >> ELSE <<"unable to read credentials file">>
        shouldSync == srvOK /\ cached.isNil
    IN [state |-> [year |-> t.year, month |-> t.month, day |-> t.day,
                   events |-> cachedEvents],
        width |-> 0,
        picker |-> [active |-> pickerNone, yearCursor |-> 0, monthCursor |-> 0,
                    yearBuffer |-> << >>, monthBuffer |-> << >>],
        calendarSrv |-> srvOK,
        eventView |-> [active |-> FALSE, events |-> << >>],
        calendarView |-> [active |-> FALSE, calendars |-> << >>,
                          selected |-> << >>, cursor |-> 0],
        syncing |-> shouldSync,
        syncError |-> syncErr,
        config |-> config]

\* initialModel(): srvOK says whether gcal.GetCalendarService succeeded
initialModel(configF, cacheF, clock, srvOK) ==
    LET t == Today(clock)
        config == LoadConfig(configF)
        cached == LoadEventsCache(cacheF, t.year, clock)
        cachedEvents == IF cached.isNil THEN emptyEvents ELSE cached.events
        syncErr == IF srvOK THEN << >> ELSE <<"unable to read credentials file">>
        shouldSync == srvOK /\ ~cached.isFresh
    IN [state |-> [year |-> t.year, month |-> t.month, day |-> t.day,
                   events |-> cachedEvents],
        width |-> 0,
        picker |-> [active |-> pickerNone, yearCursor |-> 0, monthCursor |-> 0,
                    yearBuffer |-> << >>, monthBuffer |-> << >>],
        calendarSrv |-> srvOK,
        eventView |-> [active |-> FALSE, events |-> << >>],
        calendarView |-> [active |-> FALSE, calendars |-> << >>,
                          selected |-> << >>, cursor |-> 0],
        syncing |-> shouldSync,
        syncError |-> syncErr,
        config |-> config]

\* model.Init(): the command the program starts with
initCmd(mm) ==
    IF mm.calendarSrv /\ mm.syncing
    THEN syncCmd(mm.config.CalendarIDs, mm.state.year)
    ELSE noCmd

----------------------------------------------------------------------------
(* The runtime: bubbletea runs a returned command on its own goroutine and *)
(* feeds the message it yields back to Update                              *)

Years == ThisYear..(ThisYear + YearsAhead)

\* the part of the calendar and of the picker an exploration stays in
Window(years, months, cursors, buffer) ==
    [years |-> years, months |-> months, cursors |-> cursors, buffer |-> buffer]

Bounded(mm, W) ==
    /\ mm.state.year \in W.years
    /\ mm.state.month \in W.months
    /\ (mm.picker.yearCursor = 0 \/ mm.picker.yearCursor \in W.cursors)
    /\ mm.picker.monthCursor + 1 \in W.months
    /\ Len(mm.picker.yearBuffer) <= W.buffer
    /\ Len(mm.picker.monthBuffer) <= W.buffer

notRun == [events |-> emptyEvents, eventsNil |-> TRUE, err |-> ""]

\* the commands the runtime holds once it is handed the command Update returned
launched(running, cmd) ==
    IF cmd.kind = "sync"
    THEN Append(running, [calendarIDs |-> cmd.calendarIDs, year |-> cmd.year,
                          done |-> FALSE, msg |-> notRun])
    ELSE running

\* the program's state after a return of Update
Returned(r) ==
    /\ m' = r.m
    /\ cacheFile' = r.cacheFile
    /\ configFile' = r.configFile
    /\ inflight' = launched(inflight, r.cmd)
    /\ quit' = (r.cmd.kind = "quit")
    /\ UNCHANGED now

\* Update(tea.KeyMsg) for a key of K
KeyMsg(K, W) ==
    /\ ~quit
    /\ \E key \in K :
       \E listErr \in IF key \in {"c", "C"} THEN BOOLEAN ELSE {FALSE} :
       \E iter \in IF key \in {"a", "A"}
                   THEN Orderings(checked(m.calendarView.selected))
                   ELSE {<< >>} :
          LET r == updateKey(m, key, cacheFile, configFile, now, listErr, iter)
          IN Bounded(r.m, W) /\ Returned(r)

\* a key while the event overlay is open
EventViewKeyMsg(K, W) == m.eventView.active /\ KeyMsg(K, W)

\* a key while the calendar-selection view is open
CalendarViewKeyMsg(K, W) ==
    ~m.eventView.active /\ m.calendarView.active /\ KeyMsg(K, W)

\* a key while a picker is open
PickerKeyMsg(K, W) ==
    /\ ~m.eventView.active /\ ~m.calendarView.active
    /\ m.picker.active # pickerNone
    /\ KeyMsg(K, W)

\* a key on the main grid
MainKeyMsg(K, W) ==
    /\ ~m.eventView.active /\ ~m.calendarView.active
    /\ m.picker.active = pickerNone
    /\ KeyMsg(K, W)

Widths == {80}     \* the terminal widths reported

\* Update(tea.WindowSizeMsg)
WindowSizeMsg ==
    /\ ~quit
    /\ \E width \in Widths : Returned(updateWindowSize(m, width, cacheFile, configFile))

RunSync_ReadsModel ==
    /\ ~quit
    /\ \E i \in 1..Len(inflight) :
         /\ ~inflight[i].done
         /\ \E failing \in FetchOutcomes(m.config.CalendarIDs) :
              inflight' = [inflight EXCEPT ![i].done = TRUE,
                              ![i].msg = syncEvents(m.calendarSrv, m.config.CalendarIDs,
                                                    m.state.year, failing)]
    /\ UNCHANGED <<m, cacheFile, configFile, now, quit>>

\* the goroutine of a sync command runs the closure of syncEvents
RunSync ==
    /\ ~quit
    /\ \E i \in 1..Len(inflight) :
         /\ ~inflight[i].done
         /\ \E failing \in FetchOutcomes(inflight[i].calendarIDs) :
              inflight' = [inflight EXCEPT ![i].done = TRUE,
                              ![i].msg = syncEvents(m.calendarSrv, inflight[i].calendarIDs,
                                                    inflight[i].year, failing)]
    /\ UNCHANGED <<m, cacheFile, configFile, now, quit>>

\* Update(syncEventsMsg): the message of a finished sync command is delivered
SyncEventsMsg ==
    /\ ~quit
    /\ \E i \in 1..Len(inflight) :
         /\ inflight[i].done
         /\ LET r == updateSyncEvents(m, inflight[i].msg, cacheFile, configFile, now)
            IN /\ m' = r.m
               /\ cacheFile' = r.cacheFile
               /\ configFile' = r.configFile
               /\ inflight' = SubSeq(inflight, 1, i - 1)
                                \o SubSeq(inflight, i + 1, Len(inflight))
    /\ UNCHANGED <<now, quit>>

\* time passes
Tick ==
    /\ ~quit
    /\ now < MaxClock
    /\ now' = now + 1
    /\ UNCHANGED <<m, cacheFile, configFile, inflight, quit>>

\* the program starts: main() builds initialModel() and runs Init()
Start(configFiles, cacheFiles, services) ==
    /\ now = 0
    /\ quit = FALSE
    /\ configFile \in configFiles
    /\ cacheFile \in cacheFiles
    /\ \E srvOK \in services :
         /\ m = initialModel(configFile, cacheFile, now, srvOK)
         /\ inflight = launched(<< >>, initCmd(m))

----------------------------------------------------------------------------
(* Files an earlier run of the program can have left behind *)

\* the cache a sync for `year` with the default selection saved `age` ticks ago
savedCache(year, age) ==
    SaveEventsCache(year, FetchAllMonthsEvents(TRUE, defaultIDs, year, {}).events, 0 - age)

savedConfig(ids) == SaveConfig([CalendarIDs |-> ids])

----------------------------------------------------------------------------
(* Spec: the interaction engine - year steps, jump to today, manual sync,  *)
(* the event overlay, the calendar-selection view opened, applied and      *)
(* cancelled, quit, and the sync commands                                  *)

EngineKeys == {"N", "P", "t", "s", "e", "c", "a", "esc", "q", "tab"}
EngineWindow == Window(Years, 1..MaxMonth, {0}, 0)

Init == Start({noFile}, {noFile}, BOOLEAN)

Next ==
    \/ EventViewKeyMsg(EngineKeys, EngineWindow)
    \/ CalendarViewKeyMsg(EngineKeys, EngineWindow)
    \/ MainKeyMsg(EngineKeys, EngineWindow)
    \/ WindowSizeMsg
    \/ RunSync
    \/ SyncEventsMsg

Spec == Init /\ [][Next]_vars

----------------------------------------------------------------------------
(* SpecPosition: every way Update returns - year steps, jump to today, the *)
(* month picker by digit entry (which needs the clamp), the event overlay, *)
(* the calendar-selection view, resizes and the sync commands              *)

PositionKeys == {"N", "P", "t", "m", "2", "enter", "esc", "e", "c"}
\* the leap year the program starts in and the common year after it
PositionYears == {ThisYear, ThisYear + 1}
PositionWindow == Window(PositionYears, 1..MaxMonth, {0}, MaxBuffer)

NextPosition ==
    \/ EventViewKeyMsg(PositionKeys, PositionWindow)
    \/ CalendarViewKeyMsg(PositionKeys, PositionWindow)
    \/ PickerKeyMsg(PositionKeys, PositionWindow)
    \/ MainKeyMsg(PositionKeys, PositionWindow)
    \/ WindowSizeMsg
    \/ RunSync
    \/ SyncEventsMsg

SpecPosition == Init /\ [][NextPosition]_vars

----------------------------------------------------------------------------
(* SpecCache: the disk cache over time - records of several years and ages *)
(* left by earlier runs, the clock, year steps and syncs                   *)

CacheFiles ==
    {noFile, garbage} \cup {savedCache(y, age) : y \in Years, age \in 0..MaxAge}
CacheKeys == {"N", "P", "s"}
CacheWindow == Window(Years, {StartDate.month}, {0}, 0)

InitCache == Start({noFile}, CacheFiles, BOOLEAN)

NextCache ==
    \/ MainKeyMsg(CacheKeys, CacheWindow)
    \/ RunSync
    \/ SyncEventsMsg
    \/ Tick

SpecCache == InitCache /\ [][NextCache]_vars

----------------------------------------------------------------------------
(* SpecSelect: the calendar-selection view - selection files of every kind *)
(* at start, cursor moves, toggles, apply and cancel, manual sync          *)

ConfigFiles ==
    {noFile, garbage, savedConfig(<< >>), savedConfig(<<"work">>)}
SelectKeys == {"c", "down", " ", "a", "esc", "s"}
SelectWindow == Window({ThisYear}, {StartDate.month}, {0}, 0)

InitSelect == Start(ConfigFiles, {noFile}, {TRUE})

NextSelect ==
    \/ CalendarViewKeyMsg(SelectKeys, SelectWindow)
    \/ MainKeyMsg(SelectKeys, SelectWindow)
    \/ RunSync
    \/ SyncEventsMsg

SpecSelect == InitSelect /\ [][NextSelect]_vars

----------------------------------------------------------------------------
(* SpecPicker: the year picker - entry by digits and sign, backspace,      *)
(* commit and cancel                                                       *)

PickerKeys == {"y", "2", "0", "6", "-", "backspace", "enter", "esc"}
\* the start year and the year typed as 2, 0, 2, 6
PickerYears == {ThisYear, ThisYear + 2}
\* every value a buffer of MaxDigits characters can denote
CursorRange == (0 - 10^MaxDigits)..(10^MaxDigits)
PickerWindow == Window(PickerYears, {StartDate.month}, CursorRange, MaxDigits)

InitPicker == Start({noFile}, {noFile}, {FALSE})

NextPicker ==
    \/ PickerKeyMsg(PickerKeys, PickerWindow)
    \/ MainKeyMsg(PickerKeys, PickerWindow)

SpecPicker == InitPicker /\ [][NextPicker]_vars

----------------------------------------------------------------------------
(* SpecMonth: the month picker - entry by digits, backspace, commit and    *)
(* cancel, over all twelve months                                          *)

MonthKeys == {"m", "0", "1", "2", "3", "backspace", "enter", "esc"}
MonthWindow == Window({ThisYear}, 1..12, {0}, MaxDigits)

NextMonth ==
    \/ PickerKeyMsg(MonthKeys, MonthWindow)
    \/ MainKeyMsg(MonthKeys, MonthWindow)

SpecMonth == InitPicker /\ [][NextMonth]_vars

----------------------------------------------------------------------------
(* SpecConfirm: both pickers opened, moved and confirmed - the year cursor *)
(* by pages to a common year, the month cursor by digit to February        *)

ConfirmKeys == {"y", "m", "2", "pgup", "pgdown", "enter", "esc"}
ConfirmYears == {ThisYear - PageStep, ThisYear, ThisYear + PageStep}
ConfirmWindow == Window(ConfirmYears, 1..MaxMonth, ConfirmYears, MaxBuffer)

NextConfirm ==
    \/ PickerKeyMsg(ConfirmKeys, ConfirmWindow)
    \/ MainKeyMsg(ConfirmKeys, ConfirmWindow)

SpecConfirm == InitPicker /\ [][NextConfirm]_vars

----------------------------------------------------------------------------
(* SpecEvents: the event overlay - one or both calendars selected, week    *)
(* steps between days with and without events, syncs, open and close       *)

EventsConfigs == {noFile, savedConfig(<<"primary", "work">>)}
EventsKeys == {"e", "esc", "up", "down", "s"}
EventsWindow == Window({ThisYear}, {StartDate.month}, {0}, 0)

InitEvents == Start(EventsConfigs, {noFile}, {TRUE})

NextEvents ==
    \/ EventViewKeyMsg(EventsKeys, EventsWindow)
    \/ MainKeyMsg(EventsKeys, EventsWindow)
    \/ RunSync
    \/ SyncEventsMsg

SpecEvents == InitEvents /\ [][NextEvents]_vars

----------------------------------------------------------------------------
(* SpecFetch: the fetch of a year - every selection of one or two of the   *)
(* calendars the account can read, each calendar failing or answering on   *)
(* its own, syncs at start and by key, the selection applied again         *)

Readable == {"primary", "work", "archive"}
Selections ==
    {<<a>> : a \in Readable}
        \cup {ids \in Readable \X Readable : ids[1] # ids[2]}
FetchConfigs == {savedConfig(ids) : ids \in Selections}
FetchKeys == {"s", "c", "a"}
FetchWindow == Window({ThisYear}, {StartDate.month}, {0}, 0)

InitFetch == Start(FetchConfigs, {noFile}, {TRUE})

NextFetch ==
    \/ CalendarViewKeyMsg(FetchKeys, FetchWindow)
    \/ MainKeyMsg(FetchKeys, FetchWindow)
    \/ RunSync
    \/ SyncEventsMsg

SpecFetch == InitFetch /\ [][NextFetch]_vars

----------------------------------------------------------------------------
(* SpecSteps: month steps and year steps alone, from the start date back   *)
(* over the century years 2000 and 1900                                    *)

StepKeys == {"n", "p", "N", "P"}
StepYears == (ThisYear - YearsBack)..ThisYear
StepWindow == Window(StepYears, 1..12, {0}, 0)

NextSteps == MainKeyMsg(StepKeys, StepWindow)

SpecSteps == InitPicker /\ [][NextSteps]_vars

----------------------------------------------------------------------------
(* SpecEdit: editing in both pickers - opened from the main grid, digits   *)
(* and sign typed, backspace, arrow steps, cancel                          *)

EditKeys == {"1", "3", "-", "backspace", "up", "down", "esc"}
\* the start year, the values two characters of 1, 3 and - denote, and the
\* arrow steps between them
EditCursors == {ThisYear} \cup ((0 - 4)..34)
EditWindow == Window({ThisYear}, 1..12, EditCursors, MaxBuffer + 1)

NextEdit ==
    \/ PickerKeyMsg(EditKeys, EditWindow)
    \/ MainKeyMsg({"y", "m"}, EditWindow)

SpecEdit == InitPicker /\ [][NextEdit]_vars

----------------------------------------------------------------------------
(* Vocabulary of the properties *)

\* a civil date: month in 1..12 and 1 <= day <= length of the month
validPosition(st) ==
    /\ st.month \in 1..12
    /\ st.day >= 1
    /\ st.day <= monthLength(st.year, st.month)

\* this step is Update handling the key: the model and the files change as
\* Update(tea.KeyMsg) leaves them
KeyStep(key) ==
    /\ ~quit
    /\ \E listErr \in IF key \in {"c", "C"} THEN BOOLEAN ELSE {FALSE} :
       \E iter \in IF key \in {"a", "A"}
                   THEN Orderings(checked(m.calendarView.selected))
                   ELSE {<< >>} :
          LET r == updateKey(m, key, cacheFile, configFile, now, listErr, iter)
          IN m' = r.m /\ cacheFile' = r.cacheFile /\ configFile' = r.configFile

removeAt(seq, i) == SubSeq(seq, 1, i - 1) \o SubSeq(seq, i + 1, Len(seq))

\* this step is Update receiving the message of the i-th sync command
SyncDelivered(i) ==
    /\ ~quit
    /\ inflight[i].done
    /\ inflight' = removeAt(inflight, i)

\* the store holds nothing but events the service returns for `year`
fetchedFor(events, year) ==
    \A e \in eventsOf(events) :
        \E i \in 1..Len(RemoteItems(e.CalendarID, year)) :
            RemoteItems(e.CalendarID, year)[i].Id = e.ID

\* the model after any one key, from the current state
positionsAfterAnyKey ==
    LET order == CHOOSE o \in Orderings(checked(m.calendarView.selected)) : TRUE
    IN {updateKey(m, key, cacheFile, configFile, now, FALSE, order).m.state :
           key \in AllKeys}

----------------------------------------------------------------------------
(* C1: after every Update step - keys, resizes and sync completions in any *)
(* order - the position is a civil date: month in 1..12 and                *)
(* 1 <= day <= daysInMonth(year, month); also for every key the program    *)
(* could be sent next, on the paths that return before clampDay included.  *)
C1_PositionValid ==
    /\ validPosition(m.state)
    /\ \A st \in positionsAfterAnyKey : validPosition(st)

\* the month picker committed February from day 31 of the next year, where
\* the year step had started a sync that is still in flight
C1_Witness ==
    /\ m.state.year = ThisYear + 1
    /\ m.state.month = 2
    /\ m.state.day = monthLength(ThisYear + 1, 2)
    /\ m.picker.active = pickerNone
    /\ m.picker.monthCursor = 1
    /\ Len(inflight) = 1
    /\ inflight[1].year = ThisYear + 1

(* C2: at most one sync command is in flight in every reachable state; a   *)
(* request made while one is outstanding launches nothing.                 *)
C2_AtMostOneSync == Len(inflight) <= 1

\* a year step with a cache miss was made while the startup sync was still
\* outstanding: the store was emptied and nothing was launched
C2_Witness ==
    /\ Len(inflight) = 1
    /\ m.syncing
    /\ inflight[1].year = ThisYear
    /\ m.state.year = ThisYear + 1
    /\ m.state.events = emptyEvents

(* C3: receiving a successful sync result clears syncing, replaces the     *)
(* whole store by the result, writes the cache record {year = the year of  *)
(* the position at receipt, events = the result} and clears the error.     *)
C3_SyncSuccessApplied ==
    [][\A i \in 1..Len(inflight) :
         (SyncDelivered(i) /\ inflight[i].msg.err = "" /\ ~inflight[i].msg.eventsNil)
         => /\ ~m'.syncing
            /\ m'.state.events = inflight[i].msg.events
            /\ cacheFile'.kind = "json"
            /\ cacheFile'.year = m.state.year
            /\ cacheFile'.events = inflight[i].msg.events
            /\ m'.syncError = << >>]_vars

\* the result of the startup sync was received after a year step: it is the
\* store, and the cache record carries the year of the position
C3_Witness ==
    /\ ~m.syncing
    /\ inflight = << >>
    /\ m.syncError = << >>
    /\ m.state.year = ThisYear + 1
    /\ m.state.events = FetchAllMonthsEvents(TRUE, defaultIDs, ThisYear, {}).events
    /\ cacheFile.kind = "json"
    /\ cacheFile.year = ThisYear + 1
    /\ cacheFile.events = m.state.events

(* C4: receiving a failed sync result leaves the store and the cache file  *)
(* as they were, clears syncing, records a non-empty error text, keeps the *)
(* program running and starts no new sync.                                 *)
C4_SyncFailureKeepsState ==
    [][\A i \in 1..Len(inflight) :
         (SyncDelivered(i) /\ inflight[i].msg.err # "")
         => /\ m'.state.events = m.state.events
            /\ cacheFile' = cacheFile
            /\ ~m'.syncing
            /\ m'.syncError # << >>
            /\ ~quit'
            /\ Len(inflight') = Len(inflight) - 1]_vars

\* a manual sync failed after an earlier one had succeeded: the events and
\* the cache record of the earlier sync are still there
C4_Witness ==
    /\ ~m.syncing
    /\ inflight = << >>
    /\ m.syncError = syncFailedText("unreachable")
    /\ m.state.events # emptyEvents
    /\ cacheFile.kind = "json"
    /\ cacheFile.events = m.state.events
    /\ ~quit

(* C5: apply ('a') in the calendar-selection view while no sync is in      *)
(* flight launches a sync command for the new selection and the current    *)
(* year.                                                                   *)
C5_ApplyLaunchesSync ==
    [][(/\ m.calendarView.active /\ ~m.eventView.active
        /\ m.calendarSrv /\ ~m.syncing /\ inflight = << >>
        /\ KeyStep("a"))
       => /\ Len(inflight') = 1
          /\ inflight'[1].calendarIDs = m'.config.CalendarIDs
          /\ inflight'[1].year = m.state.year]_vars

(* C6: the calendar selection is never empty, in memory or as written: a   *)
(* missing, undecodable or empty selection file loads as <<"primary">>,    *)
(* every write of the file holds at least one identifier, and apply with   *)
(* nothing checked writes exactly <<"primary">>.                           *)
C6_SelectionNeverEmpty ==
    /\ (configFile.kind # "json" \/ Len(configFile.calendar_ids) = 0)
          => m.config.CalendarIDs = <<"primary">>
    /\ [](Len(m.config.CalendarIDs) > 0)
    /\ [][configFile' # configFile
          => configFile'.kind = "json" /\ Len(configFile'.calendar_ids) > 0]_vars
    /\ [][(/\ m.calendarView.active /\ ~m.eventView.active
           /\ checked(m.calendarView.selected) = {}
           /\ KeyStep("a"))
          => /\ m'.config.CalendarIDs = <<"primary">>
             /\ configFile' = [kind |-> "json", calendar_ids |-> <<"primary">>]]_vars

\* the selection file held only "work"; it was unchecked in the view and the
\* view applied with nothing checked
C6_Witness ==
    /\ ~m.calendarView.active
    /\ DOMAIN m.calendarView.selected = {"work"}
    /\ checked(m.calendarView.selected) = {}
    /\ m.config.CalendarIDs = <<"primary">>
    /\ configFile = [kind |-> "json", calendar_ids |-> <<"primary">>]

(* C7: on a year step (N or P) whose destination year differs from the     *)
(* year whose events are loaded, the cache is loaded for the destination:  *)
(* a record present becomes the store and no sync starts; absent, the      *)
(* store is emptied and, if no sync is in flight, a sync for the           *)
(* destination year starts.                                                *)
C7_YearStepLoadsDestination ==
    [][\A step \in {<<"N", 1>>, <<"P", -1>>} :
         LET dest == adjustYear(m.state, step[2]).year
             cached == LoadEventsCache(cacheFile, dest, now)
         IN (/\ ~m.eventView.active /\ m.picker.active = pickerNone
             /\ m.calendarSrv
             /\ m.state.events # emptyEvents
             /\ ~fetchedFor(m.state.events, dest)
             /\ KeyStep(step[1]))
            => IF ~cached.isNil
               THEN m'.state.events = cached.events /\ inflight' = inflight
               ELSE /\ m'.state.events = emptyEvents
                    /\ (~m.syncing =>
                          /\ Len(inflight') = Len(inflight) + 1
                          /\ inflight'[Len(inflight')].year = dest)]_vars

(* C8: in every reachable state the store is scoped to the year of the     *)
(* position: every event in it was loaded or fetched for position.year,    *)
(* or the store is empty.                                                  *)
C8_StoreScopedToYear == fetchedFor(m.state.events, m.state.year)

(* C9 as stated: a record saved at T for year Y and loaded at `now` for Y  *)
(* returns the stored events, fresh if and only if now - T < 24h.          *)
C9_FreshIffUnder24h ==
    cacheFile.kind = "json" =>
        LET r == LoadEventsCache(cacheFile, cacheFile.year, now)
            ageHours == (now - cacheFile.timestamp) * TickHours
        IN /\ ~r.isNil
           /\ r.events = cacheFile.events
           /\ (r.isFresh <=> ageHours < FreshHours)

(* C9 amended: a record saved at T for year Y and loaded at `now` for Y    *)
(* returns the stored events, fresh if and only if now - T <= 24h: at      *)
(* exactly 24h it is still fresh, above 24h the events come back stale.    *)
C9_FreshIffWithin24h ==
    cacheFile.kind = "json" =>
        LET r == LoadEventsCache(cacheFile, cacheFile.year, now)
            ageHours == (now - cacheFile.timestamp) * TickHours
        IN /\ ~r.isNil
           /\ r.events = cacheFile.events
           /\ (r.isFresh <=> ageHours <= FreshHours)

\* the program started on a record saved exactly 24 hours before: it shows
\* the record's events and, the record being fresh, starts no sync
C9_Witness ==
    /\ now = 0
    /\ cacheFile.kind = "json"
    /\ (now - cacheFile.timestamp) * TickHours = FreshHours
    /\ cacheFile.year = m.state.year
    /\ m.state.events = cacheFile.events
    /\ m.state.events # emptyEvents
    /\ m.calendarSrv /\ ~m.syncing /\ inflight = << >>

(* C10: a cache load for year Y is absent (no events, not fresh) when      *)
(* there is no record, when the record cannot be decoded, or when it is a  *)
(* record of another year; a record of another year is never returned.     *)
C10_LoadAbsent ==
    \A y \in Years :
        (cacheFile.kind # "json" \/ cacheFile.year # y)
        => LoadEventsCache(cacheFile, y, now)
             = [events |-> emptyEvents, isNil |-> TRUE, isFresh |-> FALSE]

\* with no calendar service, the program started on the record of this year
\* and stepped to the next year: the load was absent and the store is empty
C10_Witness ==
    /\ ~m.calendarSrv
    /\ cacheFile.kind = "json"
    /\ cacheFile.year = ThisYear
    /\ cacheFile.events # emptyEvents
    /\ m.state.year = ThisYear + 1
    /\ m.state.events = emptyEvents

(* C11: the cache is kept per year: when a record for another year Y2 is   *)
(* saved after a record for Y1, a load of Y1 still returns the events that *)
(* were saved for Y1.                                                      *)
C11_CachePerYear ==
    [][(/\ cacheFile.kind = "json" /\ cacheFile'.kind = "json"
        /\ cacheFile'.year # cacheFile.year)
       => LET r == LoadEventsCache(cacheFile', cacheFile.year, now')
          IN ~r.isNil /\ r.events = cacheFile.events]_vars

\* the identifiers of a selection, as a set
idsOf(calendarIDs) == {calendarIDs[i] : i \in 1..Len(calendarIDs)}

(* C12: at startup the record of the current year, fresh or stale, is the  *)
(* store (the empty store when there is none); a sync for the current year *)
(* is started iff the service is available and the record is absent or     *)
(* stale; and the store stays as loaded until a sync result is received or *)
(* the year changes.                                                       *)
C12_StartupLoad ==
    /\ LET present == cacheFile.kind = "json" /\ cacheFile.year = ThisYear
           fresh == present /\ (now - cacheFile.timestamp) * TickHours <= FreshHours
           wanted == m.calendarSrv /\ ~fresh
       IN /\ m.state.year = ThisYear
          /\ m.state.events = IF present THEN cacheFile.events ELSE emptyEvents
          /\ m.syncing = wanted
          /\ Len(inflight) = IF wanted THEN 1 ELSE 0
          /\ wanted => /\ inflight[1].year = ThisYear
                       /\ inflight[1].calendarIDs = m.config.CalendarIDs
                       /\ ~inflight[1].done
    /\ [][m'.state.events # m.state.events
          => \/ \E i \in 1..Len(inflight) : SyncDelivered(i)
             \/ m'.state.year # m.state.year]_vars

\* the program started on a record of this year saved 36 hours before: the
\* record's events are shown and the sync is running
C12_Witness ==
    /\ now = 0
    /\ cacheFile.kind = "json"
    /\ cacheFile.year = ThisYear
    /\ (now - cacheFile.timestamp) * TickHours > FreshHours
    /\ m.state.events = cacheFile.events
    /\ m.state.events # emptyEvents
    /\ m.syncing
    /\ Len(inflight) = 1
    /\ inflight[1].year = ThisYear

(* C13: apply in the calendar-selection view deletes the cache record      *)
(* whatever the selection and whether or not a sync is in flight: right    *)
(* after it a cache load is absent for every year.                         *)
C13_ApplyClearsCache ==
    [][(m.calendarView.active /\ ~m.eventView.active /\ KeyStep("a"))
       => \A y \in Years : LoadEventsCache(cacheFile', y, now').isNil]_vars

\* a sync had stored and saved the events of this year; then the unchanged
\* selection was applied and the record is gone
C13_Witness ==
    /\ cacheFile = noFile
    /\ ~m.calendarView.active
    /\ m.state.events # emptyEvents
    /\ m.config.CalendarIDs = defaultIDs
    /\ m.syncing
    /\ inflight = << >>

(* C14: in the calendar-selection view, cursor moves, toggles and Escape   *)
(* leave the selection in memory and on disk, the cache file, the store    *)
(* and the syncing flag as they were; Escape closes the view; and opening  *)
(* the view again seeds the check marks from the current selection.        *)
C14_CancelKeepsSelection ==
    /\ [][\A key \in {"esc", "up", "k", "down", "j", " ", "enter"} :
            (m.calendarView.active /\ ~m.eventView.active /\ KeyStep(key))
            => /\ m'.config = m.config
               /\ configFile' = configFile
               /\ cacheFile' = cacheFile
               /\ m'.state.events = m.state.events
               /\ m'.syncing = m.syncing
               /\ key = "esc" => ~m'.calendarView.active]_vars
    /\ [][(/\ ~m.calendarView.active /\ ~m.eventView.active
           /\ m.picker.active = pickerNone
           /\ KeyStep("c") /\ m'.calendarView.active)
          => /\ m'.calendarView.selected =
                   [id \in idsOf(m.config.CalendarIDs) |-> TRUE]
             /\ m'.calendarView.cursor = 0]_vars

\* the view was cancelled with "work" checked: the selection is still the
\* default one and no selection file was written
C14_Witness ==
    /\ ~m.calendarView.active
    /\ "work" \in checked(m.calendarView.selected)
    /\ m.config.CalendarIDs = defaultIDs
    /\ configFile = noFile
    /\ cacheFile = noFile

\* Update's return for the key from the current state (ListCalendars
\* succeeding, the checked identifiers in one order)
afterKey(key) ==
    updateKey(m, key, cacheFile, configFile, now, FALSE,
              CHOOSE o \in Orderings(checked(m.calendarView.selected)) : TRUE)

samePosition(s1, s2) ==
    s1.year = s2.year /\ s1.month = s2.month /\ s1.day = s2.day

(* C15: while a picker is open no key other than Enter changes the         *)
(* position, and no key changes the store, the syncing flag or the         *)
(* calendar selection, starts a sync, or opens the event overlay or the    *)
(* calendar-selection view.                                                *)
C15_PickerConsumesKeys ==
    (~quit /\ m.picker.active # pickerNone) =>
        \A key \in AllKeys :
            LET r == afterKey(key)
            IN /\ key # "enter" => samePosition(r.m.state, m.state)
               /\ r.m.state.events = m.state.events
               /\ r.m.syncing = m.syncing
               /\ r.m.config = m.config
               /\ r.cmd.kind # "sync"
               /\ r.m.eventView.active => m.eventView.active
               /\ r.m.calendarView.active => m.calendarView.active

(* C16: from every reachable state - main grid, picker open, calendar      *)
(* view open, event overlay open, sync in flight - the keys 'q' and Ctrl+C *)
(* end the program in the step that handles them.                          *)
C16_QuitAlways ==
    ~quit => \A key \in {"q", "ctrl+c"} : afterKey(key).cmd.kind = "quit"

(* C17: the year key pressed in Year mode closes the picker without        *)
(* committing, and the month key pressed in Month mode closes it.          *)
C17_PickerToggleCloses ==
    (~quit /\ ~m.eventView.active /\ ~m.calendarView.active) =>
        /\ m.picker.active = pickerYear =>
              \A key \in {"y", "Y"} :
                 /\ afterKey(key).m.picker.active = pickerNone
                 /\ samePosition(afterKey(key).m.state, m.state)
        /\ m.picker.active = pickerMonth =>
              \A key \in {"m", "M"} :
                 /\ afterKey(key).m.picker.active = pickerNone
                 /\ samePosition(afterKey(key).m.state, m.state)

(* C18: the year key pressed with the picker closed or in Month mode opens *)
(* Year mode with the cursor on the selected year and both buffers empty;  *)
(* the month key pressed with the picker closed or in Year mode opens      *)
(* Month mode with cursor = selected month - 1 and both buffers empty.     *)
C18_PickerOpens ==
    (~quit /\ ~m.eventView.active /\ ~m.calendarView.active) =>
        /\ m.picker.active \in {pickerNone, pickerMonth} =>
              \A key \in {"y", "Y"} :
                 LET p == afterKey(key).m.picker
                 IN /\ p.active = pickerYear
                    /\ p.yearCursor = m.state.year
                    /\ p.yearBuffer = << >> /\ p.monthBuffer = << >>
        /\ m.picker.active \in {pickerNone, pickerYear} =>
              \A key \in {"m", "M"} :
                 LET p == afterKey(key).m.picker
                 IN /\ p.active = pickerMonth
                    /\ p.monthCursor = m.state.month - 1
                    /\ p.yearBuffer = << >> /\ p.monthBuffer = << >>

\* the number a sequence of decimal digits denotes
RECURSIVE decimal(_)
decimal(digits) ==
    IF digits = << >> THEN 0
    ELSE 10 * decimal(SubSeq(digits, 1, Len(digits) - 1))
         + (CHOOSE v \in 0..9 : Digits[v + 1] = digits[Len(digits)])

\* the buffer is an integer numeral: digits, after at most one leading '-'
isNumeral(buf) ==
    LET body == IF buf # << >> /\ buf[1] = "-" THEN Tail(buf) ELSE buf
    IN body # << >> /\ \A i \in 1..Len(body) : body[i] \in DigitKeys

numeral(buf) ==
    IF buf[1] = "-" THEN 0 - decimal(Tail(buf)) ELSE decimal(buf)

(* C19: in Year mode a typed digit is appended to the buffer and '-' is    *)
(* appended only to the empty buffer; after the key the cursor is the      *)
(* integer the buffer denotes when it denotes one and is unchanged         *)
(* otherwise; a buffer 2,0,2,6 has cursor 2026.                            *)
C19_YearDigitEntry ==
    /\ []((m.picker.active = pickerYear /\ m.picker.yearBuffer = <<"2", "0", "2", "6">>)
          => m.picker.yearCursor = 2026)
    /\ [][\A key \in DigitKeys \cup {"-"} :
            (/\ m.picker.active = pickerYear
             /\ ~m.eventView.active /\ ~m.calendarView.active
             /\ KeyStep(key))
            => LET buf == IF key \in DigitKeys \/ m.picker.yearBuffer = << >>
                          THEN Append(m.picker.yearBuffer, key)
                          ELSE m.picker.yearBuffer
               IN /\ m'.picker.yearBuffer = buf
                  /\ m'.picker.yearCursor =
                        IF isNumeral(buf) THEN numeral(buf) ELSE m.picker.yearCursor
                  /\ m'.picker.active = pickerYear
                  /\ samePosition(m'.state, m.state)]_vars

\* 2, 0, 2, 6 was typed into the year picker opened on the start year
C19_Witness ==
    /\ m.picker.active = pickerYear
    /\ m.picker.yearBuffer = <<"2", "0", "2", "6">>
    /\ m.picker.yearCursor = 2026
    /\ m.state.year = ThisYear

\* the last two elements of a sequence
lastTwo(seq) == IF Len(seq) > 2 THEN SubSeq(seq, Len(seq) - 1, Len(seq)) ELSE seq

(* C20: in Month mode a typed digit leaves the buffer holding the last two *)
(* digits typed; if they denote v in 1..12 the cursor becomes v - 1, and   *)
(* otherwise the cursor is unchanged and the buffer keeps the digits; a    *)
(* buffer 0,3 has cursor 2; the cursor is in 0..11 in every reachable      *)
(* state and after any further key.                                        *)
C20_MonthDigitEntry ==
    /\ [](/\ m.picker.monthCursor \in 0..11
          /\ \A key \in AllKeys : afterKey(key).m.picker.monthCursor \in 0..11
          /\ (m.picker.active = pickerMonth /\ m.picker.monthBuffer = <<"0", "3">>)
                => m.picker.monthCursor = 2)
    /\ [][\A key \in DigitKeys :
            (/\ m.picker.active = pickerMonth
             /\ ~m.eventView.active /\ ~m.calendarView.active
             /\ KeyStep(key))
            => LET buf == lastTwo(Append(m.picker.monthBuffer, key))
               IN /\ m'.picker.monthBuffer = buf
                  /\ m'.picker.monthCursor =
                        IF decimal(buf) \in 1..12 THEN decimal(buf) - 1
                        ELSE m.picker.monthCursor
                  /\ m'.picker.active = pickerMonth
                  /\ samePosition(m'.state, m.state)]_vars

\* 0 then 3 was typed into the month picker opened on December
C20_Witness ==
    /\ m.picker.active = pickerMonth
    /\ m.picker.monthBuffer = <<"0", "3">>
    /\ m.picker.monthCursor = 2
    /\ m.state.month = 12

\* Update's return for key2 from the state Update leaves for key1
afterKeys(key1, key2) ==
    LET r == afterKey(key1)
    IN updateKey(r.m, key2, r.cacheFile, r.configFile, now, FALSE, << >>)

\* the month picker is open on the main grid with nothing typed
monthEntryStarts ==
    /\ ~quit
    /\ ~m.eventView.active /\ ~m.calendarView.active
    /\ m.picker.active = pickerMonth
    /\ m.picker.monthBuffer = << >>

(* C21 as stated: in Month mode with an empty buffer and cursor c, typing  *)
(* 1 then 3 leaves the cursor equal to c.                                  *)
C21_ThirteenKeepsCursor ==
    monthEntryStarts =>
        afterKeys("1", "3").m.picker.monthCursor = m.picker.monthCursor

(* C21 amended: in Month mode with an empty buffer, typing 1 then 3 leaves *)
(* the buffer 1,3 and the cursor on 0, the value the valid entry 1 gave    *)
(* it: the entry 13 is ignored and the cursor keeps the value it had       *)
(* before the second digit.                                                *)
C21_ThirteenKeepsJanuary ==
    monthEntryStarts =>
        /\ afterKey("1").m.picker.monthCursor = 0
        /\ afterKeys("1", "3").m.picker.monthCursor = 0
        /\ afterKeys("1", "3").m.picker.monthBuffer = <<"1", "3">>
        /\ afterKeys("1", "3").m.picker.active = pickerMonth

\* 1 then 3 was typed into the month picker opened on March
C21_Witness ==
    /\ m.picker.active = pickerMonth
    /\ m.picker.monthBuffer = <<"1", "3">>
    /\ m.picker.monthCursor = 0
    /\ m.state.month = 3
    /\ ~m.calendarView.active

(* C22: Enter in an open picker on the main grid puts the cursor in the    *)
(* year (Year mode) or cursor + 1 in the month (Month mode), leaves the    *)
(* other of the two unchanged, closes the picker with both buffers empty,  *)
(* and leaves the day at min(day, length of the resulting month): the      *)
(* date is never moved into another month.                                 *)
C22_ConfirmCommitsAndClamps ==
    (~quit /\ ~m.eventView.active /\ ~m.calendarView.active
        /\ m.picker.active # pickerNone) =>
        LET r == afterKey("enter").m
            year == IF m.picker.active = pickerYear
                    THEN m.picker.yearCursor ELSE m.state.year
            month == IF m.picker.active = pickerMonth
                     THEN m.picker.monthCursor + 1 ELSE m.state.month
            length == monthLength(year, month)
        IN /\ r.state.year = year
           /\ r.state.month = month
           /\ r.state.day = IF m.state.day > length THEN length ELSE m.state.day
           /\ r.picker.active = pickerNone
           /\ r.picker.yearBuffer = << >> /\ r.picker.monthBuffer = << >>

\* February 29 of the leap start year, then the year picker confirmed on a
\* common year: the day became 28
C22_Witness ==
    /\ m.picker.active = pickerNone
    /\ m.picker.yearCursor = ThisYear + PageStep
    /\ m.state.year = ThisYear + PageStep
    /\ m.state.month = 2
    /\ m.state.day = 28
    /\ m.picker.monthCursor = 1

(* C23: while the calendar-selection view is active no key changes the     *)
(* position, opens a picker or the event overlay; no key but apply starts  *)
(* a sync; and a key the view does not recognise changes nothing.          *)
C23_CalendarViewConsumesKeys ==
    (~quit /\ m.calendarView.active /\ ~m.eventView.active) =>
        \A key \in AllKeys :
            LET r == afterKey(key)
                own == {"esc", "q", "c", "C", "up", "k", "down", "j",
                        " ", "enter", "a", "A"}
            IN /\ samePosition(r.m.state, m.state)
               /\ r.m.picker.active = m.picker.active
               /\ ~r.m.eventView.active
               /\ key \notin {"a", "A"} => r.cmd.kind # "sync"
               /\ key \notin own => (r.m = m /\ r.cmd = noCmd)

(* C24: in every reachable state at most one of the event overlay, the     *)
(* calendar-selection view and the picker is active.                       *)
C24_OneModal ==
    /\ ~(m.eventView.active /\ m.calendarView.active)
    /\ ~(m.eventView.active /\ m.picker.active # pickerNone)
    /\ ~(m.calendarView.active /\ m.picker.active # pickerNone)

\* the list stored under [month][day], empty when the store has no such key
bucketOf(events, month, day) ==
    IF month \in DOMAIN events /\ day \in DOMAIN events[month]
    THEN events[month][day] ELSE << >>

(* C25: on the main grid the event-detail key opens the overlay if and     *)
(* only if the store holds at least one event under the month and day of   *)
(* the position, and the overlay then lists exactly that bucket, in stored *)
(* order; on a day without events nothing changes.                         *)
C25_OverlayShowsBucket ==
    (~quit /\ ~m.eventView.active /\ ~m.calendarView.active
        /\ m.picker.active = pickerNone) =>
        \A key \in {"e", "E"} :
            LET r == afterKey(key)
                b == bucketOf(m.state.events, m.state.month, m.state.day)
            IN /\ r.m.eventView.active <=> (Len(b) > 0)
               /\ r.m.eventView.active => r.m.eventView.events = b
               /\ Len(b) = 0 => r.m = m
               /\ r.cmd = noCmd

\* the overlay is open on January 31 with both calendars synced: it lists
\* the meeting of "primary" and then that of "work"
C25_Witness ==
    /\ m.eventView.active
    /\ m.state.day = 31
    /\ m.eventView.events = bucketOf(m.state.events, m.state.month, m.state.day)
    /\ Len(m.eventView.events) = 2
    /\ m.eventView.events[1].CalendarID = "primary"
    /\ m.eventView.events[2].CalendarID = "work"

\* the events one calendar holds for the year whose start is on (month, day),
\* in the order the service returns them
calendarBucket(calID, year, month, day) ==
    LET items == RemoteItems(calID, year)
        all == [i \in 1..Len(items) |-> newEvent(items[i], calID)]
        on(e) == e.StartTime.month = month /\ e.StartTime.day = day
    IN SelectSeq(all, on)

RECURSIVE concatenated(_, _, _, _, _, _)
\* the buckets of the first i calendars of the selection that answered, one
\* after the other
concatenated(calendarIDs, failing, year, month, day, i) ==
    IF i = 0 THEN << >>
    ELSE concatenated(calendarIDs, failing, year, month, day, i - 1)
            \o (IF calendarIDs[i] \in failing THEN << >>
                ELSE calendarBucket(calendarIDs[i], year, month, day))

\* the fetches a sync command still to run can make: its arguments and the
\* calendars that fail
pendingFetches ==
    UNION {{[calendarIDs |-> inflight[i].calendarIDs, year |-> inflight[i].year,
             failing |-> F] : F \in FetchOutcomes(inflight[i].calendarIDs)} :
           i \in {j \in 1..Len(inflight) : ~inflight[j].done}}

(* C26: for every month and day the list a fetch returns is the            *)
(* concatenation, in the order of the selection, of the lists of the       *)
(* calendars whose fetch succeeded: nothing is deduplicated, and a failed  *)
(* calendar adds nothing and does not stop the ones after it.              *)
C26_AggregationConcatenates ==
    \A f \in pendingFetches :
        LET r == FetchAllMonthsEvents(m.calendarSrv, f.calendarIDs,
                                      f.year, f.failing)
        IN \A month \in 1..12 : \A day \in 1..31 :
                  bucketOf(r.events, month, day)
                    = concatenated(f.calendarIDs, f.failing, f.year,
                                   month, day, Len(f.calendarIDs))

\* a sync of <<"work", "primary">> has run: January 31 holds the meeting
\* twice, the entry of "work" first
C26_Witness ==
    \E i \in 1..Len(inflight) :
        /\ inflight[i].done
        /\ inflight[i].calendarIDs = <<"work", "primary">>
        /\ LET b == bucketOf(inflight[i].msg.events, 1, 31)
           IN /\ Len(b) = 2
              /\ b[1].ID = b[2].ID
              /\ b[1].CalendarID = "work"
              /\ b[2].CalendarID = "primary"

(* C27: a fetch reports an error exactly when every calendar of the        *)
(* selection failed; with one calendar fetched, even with no event in the  *)
(* year, it succeeds.                                                      *)
C27_ErrorIffNoneReached ==
    \A f \in pendingFetches :
        LET r == FetchAllMonthsEvents(m.calendarSrv, f.calendarIDs,
                                      f.year, f.failing)
            ids == {f.calendarIDs[i] : i \in 1..Len(f.calendarIDs)}
        IN (r.err # "") <=> (ids \subseteq f.failing)

(* C28: every event a fetch for a year places under [month][day] starts on *)
(* that day of that year, whatever item the service returns for the window.*)
C28_BucketIsStartDate ==
    \A f \in pendingFetches :
        LET r == FetchAllMonthsEvents(m.calendarSrv, f.calendarIDs,
                                      f.year, f.failing)
        IN \A month \in DOMAIN r.events : \A day \in DOMAIN r.events[month] :
                  \A i \in 1..Len(r.events[month][day]) :
                      r.events[month][day][i].StartTime
                        = [year |-> f.year, month |-> month, day |-> day]

\* the least of two numbers
min(a, b) == IF a < b THEN a ELSE b

\* the position (year, month, day)
position(st) == <<st.year, st.month, st.day>>

(* C29: a month step lands in month + delta and a year step in the same    *)
(* month of year + delta, with day = min(day, length of the destination    *)
(* month): from (2024, 1, 31) a step of +1 month gives (2024, 2, 29) and   *)
(* the step of -1 month after it gives (2024, 1, 29).                      *)
C29_StepsHoldDay ==
    (~quit /\ ~m.eventView.active /\ ~m.calendarView.active
        /\ m.picker.active = pickerNone) =>
        /\ \A step \in {<<"n", 1>>, <<"p", -1>>} :
              LET to == normMonth(m.state.year, m.state.month + step[2])
              IN position(afterKey(step[1]).m.state)
                   = <<to.year, to.month,
                       min(m.state.day, monthLength(to.year, to.month))>>
        /\ \A step \in {<<"N", 1>>, <<"P", -1>>} :
              position(afterKey(step[1]).m.state)
                = <<m.state.year + step[2], m.state.month,
                    min(m.state.day,
                        monthLength(m.state.year + step[2], m.state.month))>>
        /\ position(m.state) = <<2024, 1, 31>> =>
              /\ position(afterKey("n").m.state) = <<2024, 2, 29>>
              /\ position(afterKeys("n", "p").m.state) = <<2024, 1, 29>>

(* C30: daysIn(year, month) is the length of the month in the civil        *)
(* calendar for each of the twelve months of the year of the position:     *)
(* February has 29 days when the year is divisible by 4 and not by 100, or *)
(* divisible by 400, and 28 otherwise; and the day of the position is      *)
(* within the length of its month.                                         *)
C30_DaysInIsCivilLength ==
    LET year == m.state.year
        leap == \/ year % 400 = 0
                \/ year % 4 = 0 /\ year % 100 # 0
        civil == <<31, IF leap THEN 29 ELSE 28, 31, 30, 31, 30,
                   31, 31, 30, 31, 30, 31>>
    IN /\ \A month \in 1..12 : daysIn(year, month) = civil[month]
       /\ year = 2024 => daysIn(year, 2) = 29
       /\ year = 2000 => daysIn(year, 2) = 29
       /\ year = 2023 => daysIn(year, 2) = 28
       /\ year = 1900 => daysIn(year, 2) = 28
       /\ m.state.day <= civil[m.state.month]

\* year steps and a month step brought the position into February 1900,
\* a century year that is not a leap year
C30_Witness ==
    /\ m.state.year = 1900
    /\ m.state.month = 2
    /\ m.state.day <= 28
    /\ daysIn(m.state.year, m.state.month) = 28

\* a picker is open and gets the key
pickerHasKeys ==
    /\ ~quit /\ ~m.eventView.active /\ ~m.calendarView.active
    /\ m.picker.active # pickerNone

\* a sequence without its last element
front(buf) == [i \in 1..(Len(buf) - 1) |-> buf[i]]

(* C31: backspace in an open picker removes the last character of the      *)
(* buffer of the active mode; the cursor becomes the value the remainder   *)
(* denotes (in Month mode, less one, when it is in 1..12) and keeps its    *)
(* value when the remainder is empty or denotes no such value; nothing     *)
(* else changes, and on an empty buffer nothing changes at all.            *)
C31_BackspaceRederivesCursor ==
    pickerHasKeys =>
        \A key \in {"backspace", "ctrl+h"} :
            LET r == afterKey(key)
                p == m.picker
                yearRest == front(p.yearBuffer)
                monthRest == front(p.monthBuffer)
            IN /\ r.cmd = noCmd
               /\ (p.active = pickerYear /\ p.yearBuffer = << >>) => r.m = m
               /\ (p.active = pickerMonth /\ p.monthBuffer = << >>) => r.m = m
               /\ (p.active = pickerYear /\ p.yearBuffer # << >>) =>
                    r.m = [m EXCEPT !.picker.yearBuffer = yearRest,
                                    !.picker.yearCursor =
                                        IF isNumeral(yearRest)
                                        THEN numeral(yearRest) ELSE @]
               /\ (p.active = pickerMonth /\ p.monthBuffer # << >>) =>
                    r.m = [m EXCEPT !.picker.monthBuffer = monthRest,
                                    !.picker.monthCursor =
                                        IF isNumeral(monthRest)
                                            /\ numeral(monthRest) \in 1..12
                                        THEN numeral(monthRest) - 1 ELSE @]

\* -, 3 was typed into the year picker and the 3 erased: the buffer holds
\* the sign alone and the cursor is still -3
C31_Witness ==
    /\ m.picker.active = pickerYear
    /\ m.picker.yearBuffer = <<"-">>
    /\ m.picker.yearCursor = 0 - 3

(* C32: Up and Down in an open picker change the cursor by exactly -1 and  *)
(* +1 and empty the buffer; the month cursor wraps modulo 12 (Up from 0    *)
(* gives 11, Down from 11 gives 0), the year cursor does not wrap; a digit *)
(* typed after the arrow key is the whole buffer.                          *)
C32_ArrowsStepAndClear ==
    pickerHasKeys =>
        \A step \in {<<"up", -1>>, <<"down", 1>>} :
            LET r == afterKey(step[1])
                c == m.picker.monthCursor
                wrapped == IF c + step[2] < 0 THEN 11
                           ELSE IF c + step[2] > 11 THEN 0 ELSE c + step[2]
            IN /\ r.cmd = noCmd
               /\ m.picker.active = pickerYear =>
                    r.m = [m EXCEPT !.picker.yearCursor = @ + step[2],
                                    !.picker.yearBuffer = << >>]
               /\ m.picker.active = pickerMonth =>
                    r.m = [m EXCEPT !.picker.monthCursor = wrapped,
                                    !.picker.monthBuffer = << >>]
               /\ \A digit \in DigitKeys :
                    LET p == afterKeys(step[1], digit).m.picker
                    IN IF m.picker.active = pickerYear
                       THEN p.yearBuffer = <<digit>>
                       ELSE p.monthBuffer = <<digit>>

\* in the month picker opened on January, 3 was typed and Up pressed three
\* times: the cursor went from March back over January to December
C32_Witness ==
    /\ m.picker.active = pickerMonth
    /\ m.state.month = 1
    /\ m.picker.monthCursor = 11
    /\ m.picker.monthBuffer = << >>

(* C35: loading the selection file yields a selection in every case, and   *)
(* never an empty one: with the file absent, undecodable or holding an     *)
(* empty list, the program starts with exactly <<"primary">>; this holds   *)
(* for every file the program itself leaves behind as well.                *)
C35_LoadYieldsSelection ==
    LET loaded == initialModel(configFile, cacheFile, now, m.calendarSrv).config
        unusable == \/ configFile = noFile
                    \/ configFile = garbage
                    \/ (configFile.kind = "json" /\ configFile.calendar_ids = << >>)
    IN /\ Len(loaded.CalendarIDs) > 0
       /\ unusable => loaded.CalendarIDs = <<"primary">>

\* the selection file holds an empty list: the program started with
\* "primary" selected and its startup sync was launched for it
C35_Witness ==
    /\ configFile = [kind |-> "json", calendar_ids |-> << >>]
    /\ m.config.CalendarIDs = <<"primary">>
    /\ Len(inflight) = 1
    /\ inflight[1].calendarIDs = <<"primary">>

\* the greater of two numbers
max(a, b) == IF a > b THEN a ELSE b

\* the calendar-selection view is open and gets the key
viewHasKeys == ~quit /\ ~m.eventView.active /\ m.calendarView.active

(* C33: the cursor of the calendar-selection view is at least 0 and at     *)
(* most max(0, number of listed calendars - 1) in every reachable state;   *)
(* Up moves it one entry up and Down one entry down, and at the first and  *)
(* at the last entry they leave it where it is; with no calendar listed    *)
(* neither they nor a toggle change anything.                              *)
C33_ViewCursorInBounds ==
    LET cv == m.calendarView
        last == max(0, Len(cv.calendars) - 1)
        unlisted == [m EXCEPT !.calendarView.calendars = << >>,
                              !.calendarView.cursor = 0]
    IN /\ cv.cursor >= 0 /\ cv.cursor <= last
       /\ viewHasKeys =>
            /\ \A key \in {"up", "k"} :
                  afterKey(key).m =
                    [m EXCEPT !.calendarView.cursor = max(0, cv.cursor - 1)]
            /\ \A key \in {"down", "j"} :
                  afterKey(key).m =
                    [m EXCEPT !.calendarView.cursor = min(last, cv.cursor + 1)]
            /\ \A key \in {"up", "k", "down", "j", " ", "enter"} :
                  updateKey(unlisted, key, cacheFile, configFile, now,
                            FALSE, << >>).m = unlisted

\* the view is open with the cursor on the last listed calendar
C33_Witness ==
    /\ viewHasKeys
    /\ Len(m.calendarView.calendars) > 1
    /\ m.calendarView.cursor = Len(m.calendarView.calendars) - 1

(* C34: a sync command runs on the calendar identifiers and the year it    *)
(* was launched with - the selection and the year of the position at the   *)
(* return of the Update that launched it; they stay with the command while *)
(* it is outstanding, whatever is applied or stepped meanwhile; and its    *)
(* run changes neither the model nor the files.                            *)
C34_SyncUsesCapturedInputs ==
    [][/\ Len(inflight') = Len(inflight) + 1 =>
            LET new == inflight'[Len(inflight')]
            IN /\ new.calendarIDs = m'.config.CalendarIDs
               /\ new.year = m'.state.year
               /\ ~new.done
       /\ \A i \in 1..Len(inflight) :
            /\ Len(inflight') >= Len(inflight) =>
                  /\ inflight'[i].calendarIDs = inflight[i].calendarIDs
                  /\ inflight'[i].year = inflight[i].year
            /\ (/\ Len(inflight') = Len(inflight)
                /\ ~inflight[i].done /\ inflight'[i].done) =>
                  /\ \E failing \in FetchOutcomes(inflight[i].calendarIDs) :
                        inflight'[i].msg =
                            syncEvents(m.calendarSrv, inflight[i].calendarIDs,
                                       inflight[i].year, failing)
                  /\ m' = m /\ cacheFile' = cacheFile
                  /\ configFile' = configFile]_vars

\* the startup sync of "primary" has run and holds its events, and the
\* selection applied in the meantime is "work" alone
C34_Witness ==
    /\ Len(inflight) = 1
    /\ inflight[1].done
    /\ inflight[1].calendarIDs = <<"primary">>
    /\ m.config.CalendarIDs = <<"work">>
    /\ inflight[1].msg.err = ""
    /\ eventsOf(inflight[1].msg.events) # {}
    /\ \A e \in eventsOf(inflight[1].msg.events) : e.CalendarID = "primary"

(* C36: in every reachable state syncing = true implies that a sync        *)
(* command is in flight, its message still to be delivered.                *)
C36_SyncingHasUnit == m.syncing => Len(inflight) > 0

(* C37: in every reachable state the events of the cache record were       *)
(* fetched for the year of the record.                                     *)
C37_CacheRecordConsistent ==
    cacheFile.kind = "json" => fetchedFor(cacheFile.events, cacheFile.year)

(* C38: in every reachable state the cache record holds no event of a      *)
(* calendar outside the current selection, also when a sync launched with  *)
(* the selection before an apply completes after it.                       *)
C38_CacheOfCurrentSelection ==
    cacheFile.kind = "json" =>
        \A e \in eventsOf(cacheFile.events) :
            e.CalendarID \in idsOf(m.config.CalendarIDs)

(* C39: apply leaves as the selection exactly the listed calendars that    *)
(* are checked in the view, or "primary" alone when none is: an identifier *)
(* that is not in the listing is not in the new selection.                 *)
C39_ApplyKeepsListedOnly ==
    [][(viewHasKeys /\ KeyStep("a")) =>
          LET cv == m.calendarView
              listed == checked(cv.selected) \cap idsOf(cv.calendars)
          IN idsOf(m'.config.CalendarIDs)
                = IF listed = {} THEN {"primary"} ELSE listed]_vars

====
